---- MODULE Spec2Model ----
(***************************************************************************)
(* Model of the pulsar-live CLI: configuration merge (main.get_config),    *)
(* the admin query facade (PulsarManager.get_tenants / get_namespaces /    *)
(* get_topics), the bounded topic reader (PulsarManager.create_listener    *)
(* and its inner message_generator) as consumed by main.cmd_listen, and    *)
(* the exit status of main.                                                *)
(*                                                                         *)
(* The program is single threaded; pc is the position of that thread.      *)
(* The two generators (the context manager and message_generator) and the  *)
(* for-loop of cmd_listen are coroutines of that one thread, so one pc     *)
(* describes all three.                                                    *)
(***************************************************************************)
EXTENDS Integers, Sequences, FiniteSets, TLC

\* ------------------------------------------------------------------ bounds
MaxLimit == 2
MaxLogLen == 3
MaxRuns == 2
MaxListLen == 2

\* --------------------------------------------------------------- constants
None == "<None>"
DefaultBrokerUrl == "pulsar://localhost:6650"
DefaultAdminUrl == "http://localhost:8080"
DefaultNamespace == "public/default"

VARIABLES
    pc,          \* position of the main thread
    runs,        \* number of process invocations so far
    args,        \* argparse.Namespace of this invocation
    settings,    \* AppSettings(): environment / .env defaults
    config,      \* PulsarConfig built by get_config, NoConfig before
    adminState,  \* PulsarManager._admin_client: "none" | "open" | "closed"
    adminCall,   \* last admin facade call: request, response, outcome
    log,         \* retained log of the topic on the broker
    prevStop,    \* position at which the previous session's reader stopped
    clientState, \* pulsar.Client of the session: "none" | "open" | "closed"
    closes,      \* number of client.close() executions in this session
    readerOpen,  \* create_reader returned a reader
    cursor,      \* read position of the reader (messages already read)
    genStarted,  \* message_generator body has started executing
    count,       \* local variable count of message_generator
    yielded,     \* StreamMessages yielded so far in this session
    readLog,     \* outcome of every reader.read_next attempt of the session
    pending,     \* class of the exception in flight, "none" when there is none
    listenEnd,   \* how cmd_listen ended: "none" | "normal" | "stopped" | "error"
    configFailed,\* building the configuration or the manager raised
    exitCode     \* <<status>> once the process exited, <<>> while it runs

vars == <<pc, runs, args, settings, config, adminState, adminCall, log, prevStop,
          clientState, closes, readerOpen, cursor, genStarted, count,
          yielded, readLog, pending, listenEnd, configFailed, exitCode>>

sessionVars == <<clientState, closes, readerOpen, cursor, genStarted, count,
                 yielded, readLog, listenEnd>>

\* ------------------------------------------------------------ input spaces
Overrides == {None, "", "cli"}
Limits == (0 - 1)..MaxLimit
Names == {"public", "sample"}

RECURSIVE SeqsUpTo(_, _)
SeqsUpTo(S, n) ==
    IF n = 0 THEN {<<>>}
    ELSE LET shorter == SeqsUpTo(S, n - 1)
         IN  shorter \cup {Append(s, x) : s \in shorter, x \in S}

\* argparse.Namespace: the three global flags plus the sub-command's own
\* arguments (namespace for topics; topic and --limit for listen).
GlobalFlags == [broker : Overrides, admin : Overrides, token : Overrides]

ArgsOf(g) ==
    {[command |-> "tenants", broker |-> g.broker, admin |-> g.admin,
      token |-> g.token]}
    \cup {[command |-> "topics", namespace |-> DefaultNamespace,
           broker |-> g.broker, admin |-> g.admin, token |-> g.token]}
    \cup {[command |-> "listen", topic |-> "my-topic", limit |-> l,
           broker |-> g.broker, admin |-> g.admin, token |-> g.token] :
              l \in Limits}

\* Invocations of the whole program: no override flag, or all three given.
MainFlags ==
    {g \in GlobalFlags : g.broker = g.admin /\ g.admin = g.token /\ g.broker # ""}

MainArgs == UNION {ArgsOf(g) : g \in MainFlags}

\* Inputs of the configuration resolver alone: every combination of flags.
ConfigArgs ==
    {[command |-> "tenants", broker |-> g.broker, admin |-> g.admin,
      token |-> g.token] : g \in GlobalFlags}

SettingsSpace ==
    [broker_service_url : {DefaultBrokerUrl},
     admin_service_url : {DefaultAdminUrl},
     token : {None, "env-token"}]

\* The topic's retained log: ids 1..n in publish order; at most one message
\* carries a publish timestamp that datetime.fromtimestamp rejects.
TopicLog(n, bad) ==
    [i \in 1..n |-> [id |-> i, data |-> i, ts_ok |-> (i # bad)]]

LogSpace == {TopicLog(n, bad) : n \in 0..MaxLogLen, bad \in 0..MaxLogLen}

\* ------------------------------------------------------ python exceptions
\* Classes derived from Exception; KeyboardInterrupt and GeneratorExit derive
\* from BaseException only.
ExceptionClasses ==
    {"HTTPError", "ValueError", "Timeout", "PulsarException", "OSError"}

IsException(cls) == cls \in ExceptionClasses

IsHTTPError(cls) == cls = "HTTPError"

\* ------------------------------------------------- configuration resolver
Truthy(v) == v \notin {None, ""}

\* `a if a is not None else b`: an empty override would replace the default
PyOrNotNone(a, b) == IF a # None THEN a ELSE b

\* Python's `a or b`
PyOr(a, b) == IF Truthy(a) THEN a ELSE b

NoConfig ==
    [broker_service_url |-> None, admin_service_url |-> None, token |-> None]

get_config(a, s) ==
    [broker_service_url |-> PyOr(a.broker, s.broker_service_url),
     admin_service_url |-> PyOr(a.admin, s.admin_service_url),
     token |-> PyOr(a.token, s.token)]

\* ---------------------------------------------------- admin query facade
Statuses == {200, 301, 404, 500}
\* A response body: a JSON array of strings, or something response.json() rejects.
Bodies ==
    {[json |-> TRUE, list |-> b] : b \in SeqsUpTo(Names, MaxListLen)}
    \cup {[json |-> FALSE, list |-> <<>>]}
NoBody == [json |-> FALSE, list |-> <<>>]

\* What self._admin_client.get(...) can end in: an HTTP response, a transport
\* exception (httpx.TransportError), or an operator interrupt while blocked.
AdminResponses ==
    [kind : {"response"}, status : Statuses, body : Bodies]
    \cup {[kind |-> "transport", status |-> 0, body |-> NoBody],
          [kind |-> "interrupt", status |-> 0, body |-> NoBody]}

Returned(v) == [raised |-> "none", value |-> v]
Raised(cls) == [raised |-> cls, value |-> <<>>]

\* response.raise_for_status(): httpx raises HTTPStatusError unless 2xx
raise_for_status(status) == ~(status >= 200 /\ status <= 299)

\* The body of the try block shared by the three operations.
AdminTry(resp) ==
    IF resp.kind = "transport" THEN Raised("HTTPError")
    ELSE IF resp.kind = "interrupt" THEN Raised("KeyboardInterrupt")
    ELSE IF raise_for_status(resp.status) THEN Raised("HTTPError")
    ELSE IF ~resp.body.json THEN Raised("ValueError")
    ELSE Returned(resp.body.list)

\* no except clause: every exception of the try block reaches the caller
AdminExceptNothing(r) == r

\* except httpx.HTTPError: log and return []
AdminExcept(r) == IF IsHTTPError(r.raised) THEN Returned(<<>>) ELSE r

get_tenants(resp) == AdminExcept(AdminTry(resp))

get_namespaces(tenant, resp) == AdminExcept(AdminTry(resp))

get_topics(namespace, resp) == AdminExcept(AdminTry(resp))

TenantsPath == <<"admin", "v2", "tenants">>
NamespacesPath(tenant) == <<"admin", "v2", "namespaces", tenant>>
TopicsPath(namespace) == <<"admin", "v2", "namespaces", namespace, "topics">>

NoCall ==
    [op |-> "none", path |-> <<>>,
     resp |-> [kind |-> "none", status |-> 0, body |-> NoBody],
     out |-> Returned(<<>>)]

\* ---------------------------------------------------- bounded topic reader
\* pulsar.MessageId.earliest: the reader starts before the first retained message
Earliest == 0

\* a durable subscription instead of a Reader: resume where the last one stopped
ResumePosition(prev) == prev

\* create_reader(start_message_id=pulsar.MessageId.earliest): a Reader owns its
\* position; where an earlier session stopped (prev) plays no part
StartPosition(prev) == Earliest

\* reader.read_next advances the reader's own position by one message
NextCursor(c) == c + 1

\* while count <= limit
WhileCondLe(c, l) == c <= l

\* while count < limit - 1
WhileCondEarly(c, l) == c + 1 < l

\* while True
WhileCondAlways(c, l) == TRUE

\* while count < limit
WhileCond(c, l) == c < l

\* StreamMessage(message_id=str(msg.message_id()), ..., content=msg.data(), ...)
StreamMessageOf(m) == [message_id |-> <<"id", m.id>>, content |-> m.data]

\* publish_time=datetime.fromtimestamp(msg.publish_timestamp() / 1000) raises
\* ValueError / OverflowError / OSError on a timestamp outside the platform range
ConversionRaises(m) == ~m.ts_ok

\* What reader.read_next(timeout_millis=2000) can end in at position c.
ReadOutcomes(c, l) ==
    {"timeout", "error", "interrupt"} \cup (IF c < Len(l) THEN {"msg"} ELSE {})

ReadRaises(outcome) ==
    CASE outcome = "timeout" -> "Timeout"
      [] outcome = "error" -> "PulsarException"
      [] outcome = "interrupt" -> "KeyboardInterrupt"
      [] OTHER -> "none"

\* except Exception: break          (message_generator)
GeneratorCatches(cls) == IsException(cls)

\* cmd_listen without its `except KeyboardInterrupt` clause
ListenHandlerNoInterrupt(cls) ==
    IF cls = "none" THEN "normal"
    ELSE IF IsException(cls) THEN "error"
    ELSE "escaped"

\* except KeyboardInterrupt / except Exception        (cmd_listen)
ListenHandler(cls) ==
    IF cls = "none" THEN "normal"
    ELSE IF cls = "KeyboardInterrupt" THEN "stopped"
    ELSE IF IsException(cls) THEN "error"
    ELSE "escaped"

\* Exit status of the interpreter: sys.exit(0) when main reaches its last line,
\* 1 for an uncaught Exception, 130 for an uncaught KeyboardInterrupt.
ExitStatus(cls) ==
    IF cls = "none" THEN 0
    ELSE IF cls = "KeyboardInterrupt" THEN 130
    ELSE 1

\* client.close() under `except Exception` and at the end of the try block only
FinallyClosesUnlessInterrupted(cls) == cls = "none" \/ IsException(cls)

\* no finally clause at all
FinallyClosesNever(cls) == FALSE

\* finally: client.close() runs whatever left the try block
FinallyCloses(cls) == TRUE

\* `continue` in place of `break`: the loop polls again after a failed read
OnReadExceptionRetry(c, l) == IF c < l THEN "read_next" ELSE "cm_finally"

\* A caught read failure leaves the while loop: the generator returns.
OnReadException(c, l) == "cm_finally"

\* Upper bound on the read attempts of one session explored by the model
AttemptCap == MaxLimit + 2

\* ------------------------------------------------------------------- state
FreshSession ==
    /\ clientState = "none"
    /\ closes = 0
    /\ readerOpen = FALSE
    /\ cursor = Earliest
    /\ genStarted = FALSE
    /\ count = 0
    /\ yielded = <<>>
    /\ readLog = <<>>
    /\ listenEnd = "none"

FreshProcess ==
    /\ pc = "start"
    /\ config = NoConfig
    /\ adminState = "none"
    /\ adminCall = NoCall
    /\ pending = "none"
    /\ configFailed = FALSE
    /\ exitCode = <<>>
    /\ FreshSession

Init ==
    /\ runs = 1
    /\ args \in MainArgs
    /\ settings \in SettingsSpace
    /\ log \in LogSpace
    /\ prevStop = Earliest
    /\ FreshProcess

\* ------------------------------------------------------------------- main
\* main: config = get_config(args), or "Configuration Error" and sys.exit(1)
BuildConfig(ok) ==
    /\ pc = "start"
    /\ IF ok
       THEN /\ config' = get_config(args, settings)
            /\ pc' = "manager"
            /\ UNCHANGED <<configFailed, exitCode>>
       ELSE /\ configFailed' = TRUE
            /\ exitCode' = <<1>>
            /\ pc' = "exited"
            /\ UNCHANGED config
    /\ UNCHANGED <<runs, args, settings, adminState, adminCall, log, prevStop, pending>>
    /\ UNCHANGED sessionVars

\* main: manager = PulsarManager(config), or "Configuration Error" and sys.exit(1)
BuildManager(ok) ==
    /\ pc = "manager"
    /\ IF ok
       THEN /\ adminState' = "open"
            /\ pc' = "dispatch"
            /\ UNCHANGED <<configFailed, exitCode>>
       ELSE /\ configFailed' = TRUE
            /\ exitCode' = <<1>>
            /\ pc' = "exited"
            /\ UNCHANGED adminState
    /\ UNCHANGED <<runs, args, settings, config, adminCall, log, prevStop, pending>>
    /\ UNCHANGED sessionVars

\* case "tenants": cmd_list_tenants(manager)
CmdListTenants(resp) ==
    /\ pc = "dispatch"
    /\ args.command = "tenants"
    /\ LET out == get_tenants(resp)
       IN  /\ adminCall' = [op |-> "get_tenants", path |-> TenantsPath,
                            resp |-> resp, out |-> out]
           /\ pending' = out.raised
    /\ pc' = "main_finally"
    /\ UNCHANGED <<runs, args, settings, config, adminState, log, prevStop,
                   configFailed, exitCode>>
    /\ UNCHANGED sessionVars

\* case "topics": cmd_list_topics(manager, args)
CmdListTopics(resp) ==
    /\ pc = "dispatch"
    /\ args.command = "topics"
    /\ LET out == get_topics(args.namespace, resp)
       IN  /\ adminCall' = [op |-> "get_topics",
                            path |-> TopicsPath(args.namespace),
                            resp |-> resp, out |-> out]
           /\ pending' = out.raised
    /\ pc' = "main_finally"
    /\ UNCHANGED <<runs, args, settings, config, adminState, log, prevStop,
                   configFailed, exitCode>>
    /\ UNCHANGED sessionVars

\* What cmd_listen does with whatever leaves its with-statement.
LeaveListen(cls) ==
    /\ listenEnd' = ListenHandler(cls)
    /\ pending' = IF ListenHandler(cls) = "escaped" THEN cls ELSE "none"
    /\ pc' = "main_finally"

\* case "listen": cmd_listen enters create_listener: client = pulsar.Client(...)
CreateClient(ok) ==
    /\ pc = "dispatch"
    /\ args.command = "listen"
    /\ IF ok
       THEN /\ clientState' = "open"
            /\ pc' = "create_reader"
            /\ UNCHANGED <<listenEnd, pending>>
       ELSE /\ LeaveListen("PulsarException")
            /\ UNCHANGED clientState
    /\ UNCHANGED <<runs, args, settings, config, adminState, adminCall, log, prevStop,
                   closes, readerOpen, cursor, genStarted, count, yielded,
                   readLog, configFailed, exitCode>>

\* reader = client.create_reader(topic, start_message_id=earliest), then
\* yield message_generator(): the with-block of cmd_listen is entered
CreateReader(outcome) ==
    /\ pc = "create_reader"
    /\ IF outcome = "ok"
       THEN /\ readerOpen' = TRUE
            /\ cursor' = StartPosition(prevStop)
            /\ pc' = "for_next"
            /\ UNCHANGED pending
       ELSE /\ pending' = IF outcome = "interrupt" THEN "KeyboardInterrupt"
                          ELSE "PulsarException"
            /\ pc' = "cm_finally"
            /\ UNCHANGED <<readerOpen, cursor>>
    /\ UNCHANGED <<runs, args, settings, config, adminState, adminCall, log, prevStop,
                   clientState, closes, genStarted, count, yielded, readLog,
                   listenEnd, configFailed, exitCode>>

\* for msg in listener: next() starts message_generator (count = 0) or resumes
\* it after its yield (count += 1), and the while condition is evaluated
ForNext ==
    /\ pc = "for_next"
    /\ LET c == IF genStarted THEN count + 1 ELSE 0
       IN  /\ count' = c
           /\ pc' = IF WhileCond(c, args.limit) THEN "read_next" ELSE "cm_finally"
    /\ genStarted' = TRUE
    /\ UNCHANGED <<runs, args, settings, config, adminState, adminCall, log, prevStop,
                   clientState, closes, readerOpen, cursor, yielded, readLog,
                   pending, listenEnd, configFailed, exitCode>>

\* msg = reader.read_next(timeout_millis=2000); yield StreamMessage(...)
ReadNext(outcome) ==
    /\ pc = "read_next"
    /\ outcome \in ReadOutcomes(cursor, log)
    /\ Len(readLog) < AttemptCap
    /\ IF outcome = "msg"
       THEN LET m == log[cursor + 1]
            IN  /\ cursor' = NextCursor(cursor)
                /\ IF ConversionRaises(m)
                   THEN /\ readLog' = Append(readLog, "badmsg")
                        /\ pc' = IF GeneratorCatches("ValueError")
                                 THEN OnReadException(count, args.limit)
                                 ELSE "cm_finally"
                        /\ pending' = IF GeneratorCatches("ValueError")
                                      THEN "none" ELSE "ValueError"
                        /\ UNCHANGED yielded
                   ELSE /\ readLog' = Append(readLog, "msg")
                        /\ yielded' = Append(yielded, StreamMessageOf(m))
                        /\ pc' = "for_body"
                        /\ UNCHANGED pending
       ELSE /\ readLog' = Append(readLog, outcome)
            /\ pc' = IF GeneratorCatches(ReadRaises(outcome))
                     THEN OnReadException(count, args.limit)
                     ELSE "cm_finally"
            /\ pending' = IF GeneratorCatches(ReadRaises(outcome))
                          THEN "none" ELSE ReadRaises(outcome)
            /\ UNCHANGED <<cursor, yielded>>
    /\ UNCHANGED <<runs, args, settings, config, adminState, adminCall, log, prevStop,
                   clientState, closes, readerOpen, genStarted, count,
                   listenEnd, configFailed, exitCode>>

\* the body of the for loop in cmd_listen: prints the message
ForBody(outcome) ==
    /\ pc = "for_body"
    /\ IF outcome = "ok"
       THEN /\ pc' = "for_next"
            /\ UNCHANGED pending
       ELSE /\ pending' = IF outcome = "interrupt" THEN "KeyboardInterrupt"
                          ELSE "OSError"
            /\ pc' = "cm_finally"
    /\ UNCHANGED <<runs, args, settings, config, adminState, adminCall, log, prevStop,
                   configFailed, exitCode>>
    /\ UNCHANGED sessionVars

\* create_listener: (except Exception: log, re-raise) finally: client.close();
\* then cmd_listen's except clauses
ClientClose ==
    /\ pc = "cm_finally"
    /\ IF FinallyCloses(pending)
       THEN /\ closes' = closes + 1
            /\ clientState' = "closed"
       ELSE UNCHANGED <<closes, clientState>>
    /\ LeaveListen(pending)
    /\ UNCHANGED <<runs, args, settings, config, adminState, adminCall, log, prevStop,
                   readerOpen, cursor, genStarted, count, yielded, readLog,
                   configFailed, exitCode>>

\* main: finally: manager.close(); then sys.exit(0), unless an exception is
\* propagating out of main
MainFinally ==
    /\ pc = "main_finally"
    /\ adminState' = "closed"
    /\ exitCode' = <<ExitStatus(pending)>>
    /\ pc' = "exited"
    /\ UNCHANGED <<runs, args, settings, config, adminCall, log, prevStop, pending,
                   configFailed>>
    /\ UNCHANGED sessionVars

\* The tool is invoked again, against the same topic.
Restart ==
    /\ pc = "exited"
    /\ runs < MaxRuns
    /\ runs' = runs + 1
    /\ args' \in MainArgs
    /\ pc' = "start"
    /\ config' = NoConfig
    /\ adminState' = "none"
    /\ adminCall' = NoCall
    /\ pending' = "none"
    /\ configFailed' = FALSE
    /\ exitCode' = <<>>
    /\ clientState' = "none"
    /\ closes' = 0
    /\ readerOpen' = FALSE
    /\ cursor' = Earliest
    /\ genStarted' = FALSE
    /\ count' = 0
    /\ yielded' = <<>>
    /\ readLog' = <<>>
    /\ listenEnd' = "none"
    /\ prevStop' = IF readerOpen THEN cursor ELSE prevStop
    /\ UNCHANGED <<settings, log>>

Step ==
    \/ \E ok \in BOOLEAN : BuildConfig(ok)
    \/ \E ok \in BOOLEAN : BuildManager(ok)
    \/ \E resp \in AdminResponses : CmdListTenants(resp)
    \/ \E resp \in AdminResponses : CmdListTopics(resp)
    \/ \E ok \in BOOLEAN : CreateClient(ok)
    \/ \E outcome \in {"ok", "fail", "interrupt"} : CreateReader(outcome)
    \/ ForNext
    \/ \E outcome \in {"msg", "timeout", "error", "interrupt"} : ReadNext(outcome)
    \/ \E outcome \in {"ok", "exc", "interrupt"} : ForBody(outcome)
    \/ ClientClose
    \/ MainFinally

Next == Step \/ Restart

Spec == Init /\ [][Next]_vars

\* The interpreter keeps executing the single thread: every blocking call
\* returns or raises (read_next after at most 2000 ms, the GET after 5 s).
FairSpec == Spec /\ WF_vars(Step)

\* ----------------------------------- the configuration resolver on its own
ConfigInit ==
    /\ runs = 1
    /\ args \in ConfigArgs
    /\ settings \in SettingsSpace
    /\ log = <<>>
    /\ prevStop = Earliest
    /\ FreshProcess

ConfigNext == \E ok \in BOOLEAN : BuildConfig(ok)

ConfigSpec == ConfigInit /\ [][ConfigNext]_vars

\* ------------------------------ the admin facade used as a library object
AdminInit ==
    /\ runs = 1
    /\ args \in ArgsOf([broker |-> None, admin |-> None, token |-> None])
    /\ args.command = "tenants"
    /\ settings \in SettingsSpace
    /\ log = <<>>
    /\ prevStop = Earliest
    /\ pc = "library"
    /\ config = get_config(args, settings)
    /\ adminState = "open"
    /\ adminCall = NoCall
    /\ pending = "none"
    /\ configFailed = FALSE
    /\ exitCode = <<>>
    /\ FreshSession

LibraryFrame ==
    UNCHANGED <<pc, runs, args, settings, config, adminState, log, prevStop,
                configFailed, exitCode, clientState, closes, readerOpen,
                cursor, genStarted, count, yielded, readLog, listenEnd>>

GetTenants(resp) ==
    /\ pc = "library"
    /\ adminState = "open"
    /\ adminCall' = [op |-> "get_tenants", path |-> TenantsPath,
                     resp |-> resp, out |-> get_tenants(resp)]
    /\ pending' = get_tenants(resp).raised
    /\ LibraryFrame

GetNamespaces(tenant, resp) ==
    /\ pc = "library"
    /\ adminState = "open"
    /\ adminCall' = [op |-> "get_namespaces", path |-> NamespacesPath(tenant),
                     resp |-> resp, out |-> get_namespaces(tenant, resp)]
    /\ pending' = get_namespaces(tenant, resp).raised
    /\ LibraryFrame

GetTopics(namespace, resp) ==
    /\ pc = "library"
    /\ adminState = "open"
    /\ adminCall' = [op |-> "get_topics", path |-> TopicsPath(namespace),
                     resp |-> resp, out |-> get_topics(namespace, resp)]
    /\ pending' = get_topics(namespace, resp).raised
    /\ LibraryFrame

AdminNext ==
    \/ \E resp \in AdminResponses : GetTenants(resp)
    \/ \E tenant \in Names, resp \in AdminResponses : GetNamespaces(tenant, resp)
    \/ \E ns \in {DefaultNamespace, "sample/ns"}, resp \in AdminResponses :
          GetTopics(ns, resp)

AdminSpec == AdminInit /\ [][AdminNext]_vars

\* ================================================================ properties
IsListen == args.command = "listen"

Range(q) == {q[i] : i \in 1..Len(q)}

ReadFailures == {"timeout", "error", "badmsg"}

SessionOver == pc \in {"main_finally", "exited"}

\* C1: for limit >= 0 the number of StreamMessages yielded in a session never
\* exceeds limit, at any point of the session; with limit = 0 nothing is
\* yielded and no read is attempted.
C1_YieldedAtMostLimit ==
    (IsListen /\ args.limit >= 0) =>
        /\ Len(yielded) <= args.limit
        /\ (args.limit = 0 => (yielded = <<>> /\ readLog = <<>>))

\* The limit is reached while the topic still holds further messages.
C1_Witness ==
    /\ IsListen
    /\ args.limit = 2
    /\ Len(log) > 2
    /\ Len(yielded) = 2
    /\ listenEnd = "normal"

\* C2: client.close() executes exactly once in a session whose broker client
\* was constructed, on every exit path (limit reached, read timed out or
\* failed, create_reader failed, the with-block was left early, or
\* KeyboardInterrupt during a read); never more than once, and not before the
\* session leaves the with-statement.
C2_CloseExactlyOnce ==
    /\ closes <= 1
    /\ (clientState = "none" => closes = 0)
    /\ (clientState # "none" /\ ~SessionOver) => closes = 0
    /\ (clientState # "none" /\ SessionOver) => closes = 1

\* KeyboardInterrupt raised while a read was in progress, connection released.
C2_Witness ==
    /\ IsListen
    /\ readLog # <<>>
    /\ readLog[Len(readLog)] = "interrupt"
    /\ listenEnd = "stopped"
    /\ closes = 1

\* C3 as stated: a session iterated to completion produces fewer than limit
\* messages only if the source is exhausted or a read attempt timed out.
C3_FewerOnlyIfExhaustedOrTimeout ==
    (IsListen /\ listenEnd = "normal" /\ Len(yielded) < args.limit) =>
        (cursor >= Len(log) \/ "timeout" \in Range(readLog))

\* C3 amended: a session iterated to completion produces fewer than limit
\* messages only if its last read attempt timed out or failed with any other
\* exception (a read error, or an exception while converting the message
\* read); if no read attempt of the session timed out or failed, it yields
\* exactly limit messages (limit >= 0).
C3_FewerOnlyIfReadFailed ==
    (IsListen /\ listenEnd = "normal") =>
        /\ (Len(yielded) < args.limit =>
               (readLog # <<>> /\ readLog[Len(readLog)] \in ReadFailures))
        /\ ((args.limit >= 0 /\ Range(readLog) \subseteq {"msg"}) =>
               Len(yielded) = args.limit)

\* A read error (not a timeout) ends a session early although the topic still
\* holds unread messages.
C3_Witness ==
    /\ IsListen
    /\ listenEnd = "normal"
    /\ Len(yielded) < args.limit
    /\ cursor < Len(log)
    /\ readLog[Len(readLog)] = "error"

\* C4: for each of get_tenants, get_namespaces and get_topics, a GET that ends
\* in a non-2xx response or a transport exception makes the operation return
\* the empty list without raising; a 2xx response carrying a JSON list makes it
\* return that list verbatim (same elements, same order).
C4_AdminErrorsBecomeEmpty ==
    (adminCall.op # "none") =>
        LET resp == adminCall.resp
            out == adminCall.out
            ok2xx == resp.kind = "response" /\ resp.status \in 200..299
        IN  /\ (resp.kind = "transport" \/ (resp.kind = "response" /\ ~ok2xx))
                  => (out.raised = "none" /\ out.value = <<>>)
            /\ (ok2xx /\ resp.body.json)
                  => (out.raised = "none" /\ out.value = resp.body.list)

\* get_namespaces answered with a 500 returned [] without raising.
C4_Witness ==
    /\ adminCall.op = "get_namespaces"
    /\ adminCall.resp.kind = "response"
    /\ adminCall.resp.status = 500
    /\ adminCall.out = Returned(<<>>)
    /\ pending = "none"

\* C5 as stated: exit status 1 when building the configuration or the manager
\* failed, and 0 on every other run of main, whatever the command and however
\* it ended.
C5_ExitZeroUnlessConfigFailed ==
    (pc = "exited") => exitCode = (IF configFailed THEN <<1>> ELSE <<0>>)

\* C5 amended: exit status 1 when building the configuration or the manager
\* failed; otherwise 0 on every run in which no exception escapes the command:
\* always for listen (KeyboardInterrupt and every Exception raised in its try
\* block are caught, broker connection errors included) and for tenants/topics
\* whenever the admin call returns; an exception the admin facade does not
\* catch (KeyboardInterrupt during the GET, the ValueError of a 2xx body that
\* is not JSON) leaves main after manager.close() and the status is non-zero.
C5_ExitZeroUnlessEscaped ==
    (pc = "exited") =>
        /\ Len(exitCode) = 1
        /\ configFailed => exitCode = <<1>>
        /\ (~configFailed /\ IsListen) => exitCode = <<0>>
        /\ (~configFailed /\ ~IsListen) =>
              ((exitCode = <<0>>) <=> (adminCall.out.raised = "none"))
        /\ (~configFailed) => adminState = "closed"

\* KeyboardInterrupt during listening: caught, the process exits with 0.
C5_Witness ==
    /\ pc = "exited"
    /\ IsListen
    /\ listenEnd = "stopped"
    /\ exitCode = <<0>>

\* C6: every reading session terminates: once the broker client is open the
\* session reaches the closed state, whatever each read_next returns; and on a
\* topic from which no message is ever returned the session ends closed with
\* zero messages yielded.
C6_SessionTerminates ==
    /\ (clientState = "open") ~> (clientState = "closed")
    /\ (clientState = "open" /\ log = <<>>)
          ~> (clientState = "closed" /\ yielded = <<>>)

\* An empty topic: the first read timed out and the session closed with nothing.
C6_Witness ==
    /\ IsListen
    /\ args.limit >= 1
    /\ log = <<>>
    /\ readLog = <<"timeout">>
    /\ yielded = <<>>
    /\ clientState = "closed"

\* C7: each field of the configuration equals the command-line override when
\* that is present and non-empty, and the settings default otherwise; an
\* absent or empty override never replaces the default and no field depends on
\* another field's override.
C7_OverrideWins ==
    (pc = "manager") =>
        /\ config.broker_service_url =
              (IF args.broker \notin {None, ""} THEN args.broker
               ELSE settings.broker_service_url)
        /\ config.admin_service_url =
              (IF args.admin \notin {None, ""} THEN args.admin
               ELSE settings.admin_service_url)
        /\ config.token =
              (IF args.token \notin {None, ""} THEN args.token
               ELSE settings.token)

\* One override given, one empty, one absent.
C7_Witness ==
    /\ pc = "manager"
    /\ args.broker = "cli"
    /\ args.admin = ""
    /\ args.token = None
    /\ settings.token = "env-token"
    /\ config = [broker_service_url |-> "cli",
                 admin_service_url |-> DefaultAdminUrl,
                 token |-> "env-token"]

\* C8: the messages yielded by a session are a prefix of the topic's retained
\* log from the earliest message, in order, none skipped or duplicated,
\* wherever an earlier session stopped.
C8_YieldedIsLogPrefix ==
    IsListen =>
        /\ Len(yielded) <= Len(log)
        /\ \A i \in 1..Len(yielded) :
              /\ yielded[i].message_id = <<"id", log[i].id>>
              /\ yielded[i].content = log[i].data

\* A second session, after one that stopped at position 2, yields the log's
\* first two messages again.
C8_Witness ==
    /\ IsListen
    /\ runs = 2
    /\ prevStop = 2
    /\ Len(yielded) = 2
    /\ yielded[1].message_id = <<"id", 1>>
    /\ listenEnd = "normal"

\* C9: only the last read attempt of a session can be one that did not return
\* a message (at most one failure, nothing read after it); no read follows the
\* limit-th yielded message; attempts = yielded + at most one.
C9_LoopStopsAtFirstFailureOrLimit ==
    IsListen =>
        /\ \A i \in 1..(Len(readLog) - 1) : readLog[i] = "msg"
        /\ Len(yielded) <= Len(readLog)
        /\ Len(readLog) <= Len(yielded) + 1
        /\ (Len(yielded) = args.limit) => (Len(readLog) = args.limit)
        /\ (args.limit >= 0) => (Len(readLog) <= args.limit)

\* A message, then a timeout before the limit: the session is over.
C9_Witness ==
    /\ IsListen
    /\ args.limit = 2
    /\ readLog = <<"msg", "timeout">>
    /\ Len(yielded) = 1
    /\ listenEnd = "normal"

\* C10: every read_next happens while the broker client is open and after
\* create_reader succeeded, never after client.close(); and the admin HTTP
\* client is closed only once the broker client is no longer open.
C10_ReadsWhileOpen ==
    /\ [][(Len(readLog') > Len(readLog)) =>
              (clientState = "open" /\ readerOpen /\ closes = 0)]_vars
    /\ [](adminState = "closed" => clientState # "open")

\* A session that read something: broker client closed, then the admin client.
C10_Witness ==
    /\ IsListen
    /\ Len(readLog) >= 1
    /\ clientState = "closed"
    /\ adminState = "closed"

====
